---- MODULE Spec2Model ----
(***************************************************************************)
(* A model of gTorrent: the peer session (peer.simplePeer), the HTTP       *)
(* tracker client (tracker.httpTracker), the torrent metadata decoder      *)
(* (torrent.torrentDec) and the program entry (main).                      *)
(*                                                                         *)
(* Three specifications share the module:                                  *)
(*   SpecPeer     concurrent peer sessions fed inbound packets             *)
(*   SpecStartup  main(), with Tracker.Peers() as one of its steps         *)
(*   SpecTorrent  TorrentDecoder.Decode and Info.CalculateLastPieceSize    *)
(***************************************************************************)
EXTENDS Integers, Sequences, FiniteSets, TLC

VARIABLES
    \* ---- peer sessions
    peer,        \* peer[p]: the fields of simplePeer p (net is the log of net.Send calls,
                 \*          msgs the events put on its channel)
    conn,        \* conn[p]: the state of p's Network / transport
    received,    \* received[p]: how many packets NewPacket has dispatched to p
    lastCU,      \* history: the most recent Choke/Unchoke packet of p ("none" if none)
    lastIN,      \* history: the most recent Interested/NotInterested packet of p
    shadow,      \* history: simplePeer p as if the skipped packets had never arrived
    afterSkip,   \* history: "none", then "skipped" once p has processed a skipped packet,
                 \*          then "followed" once it has processed another packet after it
    \* ---- main and Tracker.Peers
    mpc,         \* where main is
    announce,    \* info.Announce of the decoded torrent
    tracker,     \* the value NewTracker left in main's variable tracker
    penv,        \* what the outside world answered to Tracker.Peers
    pres,        \* what Tracker.Peers returned
    out,         \* what main printed
    opened,      \* the peers main opened a connection to
    \* ---- torrent decoder
    tpc,         \* where the decoder run is
    ben,         \* the outcome of the parser, which Decode works on
    info,        \* the Info CalculateLastPieceSize is called on
    dres,        \* what Decode returned
    cres         \* what CalculateLastPieceSize returned

peerVars    == <<peer, conn, received, lastCU, lastIN, shadow, afterSkip>>
startupVars == <<mpc, announce, tracker, penv, pres, out, opened>>
torrentVars == <<tpc, ben, info, dres, cres>>
vars        == <<peerVars, startupVars, torrentVars>>

(***************************************************************************)
(* Bounds                                                                  *)
(***************************************************************************)
NumPeers    == 2    \* concurrent peer sessions
MaxPackets  == 3    \* inbound packets dispatched in one run, all sessions together
NumPieces   == 2    \* piece indices a Have message may name
MaxRspPeers == 2    \* peers in one tracker response
MaxLength   == 6    \* largest "length" of a torrent
MaxPieceLen == 3    \* largest "piece length" of a torrent
MaxHashes   == 2    \* piece hashes in "pieces"

Sessions == 1..NumPeers

(***************************************************************************)
(* Wire helpers: 4-byte big-endian integers (spec 4.1)                     *)
(***************************************************************************)
BE32(n) == << (n \div 16777216) % 256, (n \div 65536) % 256, (n \div 256) % 256, n % 256 >>

FromBE32(b, at) == b[at] * 16777216 + b[at + 1] * 65536 + b[at + 2] * 256 + b[at + 3]

Packet(id, payload) == [id |-> id, payload |-> payload]

\* encodePieceRequest(piece, offset, size): a Request frame
encodePieceRequest(piece, offset, size) ==
    Packet("request", BE32(piece) \o BE32(offset) \o BE32(size))

\* encodeInterested(): an Interested frame
encodeInterested == Packet("interested", <<>>)

\* decodeRequest(payload): (piece, offset, size)
decodeRequest(payload) ==
    <<FromBE32(payload, 1), FromBE32(payload, 5), FromBE32(payload, 9)>>

\* decodePiece(payload): (piece, offset, block)
decodePiece(payload) ==
    <<FromBE32(payload, 1), FromBE32(payload, 5), SubSeq(payload, 9, Len(payload))>>

\* bit i of a bitfield, most significant bit first within each byte
HasPiece(bf, i) ==
    /\ (i \div 8) + 1 <= Len(bf)
    /\ (bf[(i \div 8) + 1] \div (2 ^ (7 - (i % 8)))) % 2 = 1

(***************************************************************************)
(* simplePeer                                                              *)
(***************************************************************************)
newPeer ==
    [msgs |-> <<>>, net |-> <<>>, chocked |-> FALSE, bitfield |-> <<>>,
     interested |-> FALSE]

send(s, packet) == [s EXCEPT !.net = Append(@, packet)]

start_emitsAlways(s, err) == [s EXCEPT !.msgs = Append(@, "handshakeError")]

start(s, err) ==
    IF err THEN [s EXCEPT !.msgs = Append(@, "handshakeError")] ELSE s

onKeepAlive(s) == s

onChoke(s) == [s EXCEPT !.chocked = TRUE]

onUnchoke_keepsFlag(s) == send(s, encodePieceRequest(0, 0, 16384))

onUnchoke(s) ==
    send([s EXCEPT !.chocked = FALSE], encodePieceRequest(0, 0, 16384))

onInterested(s) == [s EXCEPT !.interested = TRUE]

onNotInterested_wrongFlag(s) == [s EXCEPT !.chocked = FALSE]

onNotInterested(s) == [s EXCEPT !.interested = FALSE]

onHave(s, payload) == send(s, encodeInterested)

onBitfield(s, bitfield) == send([s EXCEPT !.bitfield = bitfield], encodeInterested)

onRequest(s, req) == s

onPiece(s, pc) == s

onCancel(s) == s

onPort(s) == s

onUnknown_fatal(s) == [s EXCEPT !.msgs = Append(@, "handshakeError")]

onUnknown(s) == s

NewPacket(s, packet) ==
    CASE packet.id = "keepAlaive"    -> onKeepAlive(s)
      [] packet.id = "choke"         -> onChoke(s)
      [] packet.id = "unchoke"       -> onUnchoke(s)
      [] packet.id = "interested"    -> onInterested(s)
      [] packet.id = "notInterested" -> onNotInterested(s)
      [] packet.id = "have"          -> onHave(s, packet.payload)
      [] packet.id = "bitfield"      -> onBitfield(s, packet.payload)
      [] packet.id = "request"       -> onRequest(s, decodeRequest(packet.payload))
      [] packet.id = "piece"         -> onPiece(s, decodePiece(packet.payload))
      [] packet.id = "cancel"        -> onCancel(s)
      [] packet.id = "port"          -> onPort(s)
      [] packet.id = "unknown"       -> onUnknown(s)
      [] OTHER                       -> s

(***************************************************************************)
(* The Network of a session: it delivers inbound packets to its listener   *)
(* between a successful handshake and the close of the transport.          *)
(***************************************************************************)
SendHandshake(err) == IF err THEN "ClosedHandshake" ELSE "Active"

CanDeliver(p) == conn[p] = "Active"

\* The inbound packets of a run
Bitfields == { <<>>, <<128>>, <<192>> }

InPackets ==
    { Packet(id, <<>>) : id \in {"keepAlaive", "choke", "unchoke", "interested",
                                 "notInterested", "unknown"} }
    \cup { Packet("have", BE32(i)) : i \in 0..(NumPieces - 1) }
    \cup { Packet("bitfield", b) : b \in Bitfields }
    \cup { Packet("request", BE32(0) \o BE32(0) \o BE32(16384)),
           Packet("piece", BE32(0) \o BE32(0) \o <<7>>),
           Packet("cancel", BE32(0) \o BE32(0) \o BE32(16384)),
           Packet("port", <<26, 225>>) }

SkippedIDs == {"keepAlaive", "cancel", "port", "unknown"}

TotalReceived == LET RECURSIVE Sum(_)
                     Sum(n) == IF n = 0 THEN 0 ELSE received[n] + Sum(n - 1)
                 IN  Sum(NumPeers)

InitPeer ==
    /\ peer     = [p \in Sessions |-> newPeer]
    /\ shadow   = [p \in Sessions |-> newPeer]
    /\ conn     = [p \in Sessions |-> "Connecting"]
    /\ received = [p \in Sessions |-> 0]
    /\ lastCU   = [p \in Sessions |-> "none"]
    /\ lastIN   = [p \in Sessions |-> "none"]
    /\ afterSkip = [p \in Sessions |-> "none"]

\* start(): the handshake is sent; on failure handshakeError goes to msgs
Start(p) ==
    /\ conn[p] = "Connecting"
    /\ \E err \in BOOLEAN :
          /\ conn'   = [conn EXCEPT ![p] = SendHandshake(err)]
          /\ peer'   = [peer EXCEPT ![p] = start(@, err)]
          /\ shadow' = [shadow EXCEPT ![p] = start(@, err)]
    /\ UNCHANGED <<received, lastCU, lastIN, afterSkip>>

\* The Network hands one inbound packet to its listener: NewPacket(packet)
Deliver(p, packet) ==
    /\ CanDeliver(p)
    /\ TotalReceived < MaxPackets
    /\ peer'     = [peer EXCEPT ![p] = NewPacket(@, packet)]
    /\ received' = [received EXCEPT ![p] = @ + 1]
    /\ lastCU'   = [lastCU EXCEPT ![p] =
                       IF packet.id \in {"choke", "unchoke"} THEN packet.id ELSE @]
    /\ lastIN'   = [lastIN EXCEPT ![p] =
                       IF packet.id \in {"interested", "notInterested"} THEN packet.id ELSE @]
    /\ shadow'   = [shadow EXCEPT ![p] =
                       IF packet.id \in SkippedIDs THEN @ ELSE NewPacket(@, packet)]
    /\ afterSkip' = [afterSkip EXCEPT ![p] =
                       IF @ = "none"
                       THEN (IF packet.id \in SkippedIDs THEN "skipped" ELSE "none")
                       ELSE (IF packet.id \in SkippedIDs THEN @ ELSE "followed")]
    /\ UNCHANGED conn

Receive(p) == \E packet \in InPackets : Deliver(p, packet)

\* The transport fails or the remote peer closes the connection
Disconnect(p) ==
    /\ conn[p] = "Active"
    /\ conn' = [conn EXCEPT ![p] = "ClosedTransport"]
    /\ UNCHANGED <<peer, received, lastCU, lastIN, shadow, afterSkip>>

NextPeer ==
    \/ \E p \in Sessions : Start(p) /\ UNCHANGED <<startupVars, torrentVars>>
    \/ \E p \in Sessions : Receive(p) /\ UNCHANGED <<startupVars, torrentVars>>
    \/ \E p \in Sessions : Disconnect(p) /\ UNCHANGED <<startupVars, torrentVars>>

(***************************************************************************)
(* tracker.httpTracker                                                     *)
(***************************************************************************)
NoErr == "nil"

\* The announce URLs a decoded torrent may carry; url.Parse rejects the second
Announces == {"http://tracker.example/announce", "http://[::1/announce"}

urlParseFails(announceURL) == announceURL = "http://[::1/announce"

prepareURL(announceURL) ==
    IF urlParseFails(announceURL)
    THEN [url |-> "", err |-> "Malformed URL"]
    ELSE [url |-> announceURL, err |-> NoErr]

NewTracker(announceURL) ==
    LET u == prepareURL(announceURL)
    IN  IF u.err # NoErr
        THEN [tracker |-> "nil", err |-> u.err]
        ELSE [tracker |-> "httpTracker", err |-> NoErr]

\* What the outside world answers to one call of Peers(): the outcome of http.Get,
\* the status code, the outcome of ioutil.ReadAll, and of the response decoder
PeerAddrs == {"10.0.0.1:6881", "10.0.0.2:6881"}

PeerLists == UNION { [1..n -> PeerAddrs] : n \in 0..MaxRspPeers }

PeersEnvs ==
    [getErr : BOOLEAN, status : {200, 404}, readErr : BOOLEAN, decErr : BOOLEAN,
     rspPeers : PeerLists]

NoEnv == [getErr |-> FALSE, status |-> 200, readErr |-> FALSE, decErr |-> FALSE,
          rspPeers |-> <<>>]

NotCalled == [peers |-> <<>>, err |-> NoErr, requests |-> 0]

Peers_noStatusCheck(env) ==
    IF env.getErr THEN [peers |-> <<>>, err |-> "http.Get", requests |-> 1]
    ELSE IF env.readErr THEN [peers |-> <<>>, err |-> "ReadAll", requests |-> 1]
    ELSE IF env.decErr THEN [peers |-> <<>>, err |-> "body | decode", requests |-> 1]
    ELSE [peers |-> env.rspPeers, err |-> NoErr, requests |-> 1]

Peers(env) ==
    IF env.getErr THEN [peers |-> <<>>, err |-> "http.Get", requests |-> 1]
    ELSE IF env.status # 200
         THEN [peers |-> <<>>, err |-> "Can't reach http tracker", requests |-> 1]
    ELSE IF env.readErr THEN [peers |-> <<>>, err |-> "ReadAll", requests |-> 1]
    ELSE IF env.decErr THEN [peers |-> <<>>, err |-> "body | decode", requests |-> 1]
    ELSE [peers |-> env.rspPeers, err |-> NoErr, requests |-> 1]

(***************************************************************************)
(* main                                                                    *)
(***************************************************************************)
InitStartup ==
    /\ mpc = "start" /\ announce = "" /\ tracker = "unset" /\ penv = NoEnv /\ pres = NotCalled
    /\ out = <<>> /\ opened = <<>>

\* data, err := ioutil.ReadFile(conf.TorrentPath)
ReadFile ==
    /\ mpc = "start"
    /\ \E err \in BOOLEAN :
          IF err
          THEN mpc' = "returned" /\ out' = Append(out, "File reading error")
          ELSE mpc' = "read" /\ out' = out
    /\ UNCHANGED <<announce, tracker, penv, pres, opened>>

\* info, err := dec.Decode()
DecodeTorrent ==
    /\ mpc = "read"
    /\ \E err \in BOOLEAN, a \in Announces :
          IF err
          THEN mpc' = "returned" /\ out' = Append(out, "decode error") /\ announce' = announce
          ELSE mpc' = "decoded" /\ out' = out /\ announce' = a
    /\ UNCHANGED <<tracker, penv, pres, opened>>

\* tracker, _ := tracker.NewTracker(info, initState, conf): the error is dropped
MakeTracker ==
    /\ mpc = "decoded"
    /\ tracker' = NewTracker(announce).tracker
    /\ mpc' = "tracker"
    /\ UNCHANGED <<announce, penv, pres, out, opened>>

\* peers, err := tracker.Peers(): a method call on a nil interface value panics
CallPeers ==
    /\ mpc = "tracker"
    /\ IF tracker = "nil"
       THEN mpc' = "panic" /\ UNCHANGED <<penv, pres, out>>
       ELSE \E env \in PeersEnvs :
               /\ penv' = env
               /\ pres' = Peers(env)
               /\ IF Peers(env).err # NoErr
                  THEN mpc' = "returned" /\ out' = Append(out, Peers(env).err)
                  ELSE mpc' = "peers" /\ out' = out
    /\ UNCHANGED <<announce, tracker, opened>>

\* net := network.NewNetwork(peers[0], h); net.Send(): peers[0] of an empty slice panics
Connect ==
    /\ mpc = "peers"
    /\ IF Len(pres.peers) = 0
       THEN mpc' = "panic" /\ opened' = opened
       ELSE mpc' = "connected" /\ opened' = Append(opened, pres.peers[1])
    /\ UNCHANGED <<announce, tracker, penv, pres, out>>

NextStartup ==
    \/ ReadFile /\ UNCHANGED <<peerVars, torrentVars>>
    \/ DecodeTorrent /\ UNCHANGED <<peerVars, torrentVars>>
    \/ MakeTracker /\ UNCHANGED <<peerVars, torrentVars>>
    \/ CallPeers /\ UNCHANGED <<peerVars, torrentVars>>
    \/ Connect /\ UNCHANGED <<peerVars, torrentVars>>

(***************************************************************************)
(* Bencode values, as the parser hands them to the decoders                *)
(***************************************************************************)
Nil      == [t |-> "nil", v |-> 0]
BInt(n)  == [t |-> "int", v |-> n]
BStr(str) == [t |-> "str", v |-> str]
BList(l) == [t |-> "list", v |-> l]
BDict(d) == [t |-> "dict", v |-> d]

\* bDict.get(key): the value under key, nil when the key is absent
get(dict, key) == IF key \in DOMAIN dict.v THEN dict.v[key] ELSE Nil

\* Bencode.PrettyString(): kept symbolic, as the value it prints
PrettyString(b) == b

\* The SHA-1 digest of infoDict.String(): kept symbolic
sha1(infoDict) == [sha1of |-> infoDict]

(***************************************************************************)
(* torrent.Info and torrent.torrentDec                                     *)
(***************************************************************************)
chunkSize == 16384

hashLen == 20

NoInfo ==
    [Announce |-> "", AnnounceList |-> <<>>, PieceSize |-> 0, Length |-> 0, Name |-> "",
     files |-> <<>>, PieceHashes |-> <<>>, InfoHash |-> <<>>, ChunkSize |-> 0]

CalculateLastPieceSize_noElse(i) ==
    IF i.PieceSize = 0
    THEN [panic |-> TRUE, lastPieceSize |-> 0, numberOfPieces |-> 0]
    ELSE LET lastPieceSize  == i.Length % i.PieceSize
             numberOfPieces == i.Length \div i.PieceSize
         IN  IF lastPieceSize # 0
             THEN [panic |-> FALSE, lastPieceSize |-> lastPieceSize,
                   numberOfPieces |-> numberOfPieces + 1]
             ELSE [panic |-> FALSE, lastPieceSize |-> lastPieceSize,
                   numberOfPieces |-> numberOfPieces]

\* Length and PieceSize are never negative here, where Go's % and / agree with
\* % and \div; an integer division by zero panics
CalculateLastPieceSize(i) ==
    IF i.PieceSize = 0
    THEN [panic |-> TRUE, lastPieceSize |-> 0, numberOfPieces |-> 0]
    ELSE LET lastPieceSize  == i.Length % i.PieceSize
             numberOfPieces == i.Length \div i.PieceSize
         IN  IF lastPieceSize # 0
             THEN [panic |-> FALSE, lastPieceSize |-> lastPieceSize,
                   numberOfPieces |-> numberOfPieces + 1]
             ELSE [panic |-> FALSE, lastPieceSize |-> i.PieceSize,
                   numberOfPieces |-> numberOfPieces]

wrongTypeError(str, type) == "wrong type"

fromDict(dict, key) ==
    LET value == get(dict, key)
    IN  IF value.t = "nil"
        THEN [value |-> Nil, err |-> "is missing in the dictionary"]
        ELSE [value |-> value, err |-> NoErr]

intValue(dict, key) ==
    LET benLength == fromDict(dict, key)
    IN  IF benLength.err # NoErr
        THEN [value |-> 0, present |-> FALSE, err |-> benLength.err]
        ELSE IF benLength.value.t # "int"
             THEN [value |-> 0, present |-> TRUE, err |-> wrongTypeError(key, "int")]
             ELSE [value |-> benLength.value.v, present |-> TRUE, err |-> NoErr]

strValue(dict, key) ==
    LET benName == fromDict(dict, key)
    IN  IF benName.err # NoErr
        THEN [value |-> "", err |-> benName.err]
        ELSE IF benName.value.t # "str"
             THEN [value |-> "", err |-> wrongTypeError(key, "string")]
             ELSE [value |-> benName.value.v, err |-> NoErr]

announceList(bencs) ==
    LET benValue == fromDict(bencs, "announce-list")
    IN  IF benValue.err # NoErr
        THEN [list |-> <<>>, err |-> NoErr]
        ELSE IF benValue.value.t # "list"
             THEN [list |-> <<>>, err |-> wrongTypeError("announce-list entry", "list of lists")]
             ELSE LET ls == benValue.value.v
                  IN  IF \E i \in DOMAIN ls : ls[i].t # "list"
                      THEN [list |-> <<>>, err |-> wrongTypeError("announce-list entry", "list")]
                      ELSE [list |-> [i \in DOMAIN ls |->
                                        [j \in DOMAIN ls[i].v |-> PrettyString(ls[i].v[j])]],
                            err |-> NoErr]

\* The loop of files() from entry i on, acc being the files appended so far. The
\* type assertion v.(*bDict) has no ok result: it panics on an entry that is no
\* dictionary. A nil slice and an empty one are both <<>>.
RECURSIVE filesLoop(_, _, _)
filesLoop(entries, i, acc) ==
    IF i > Len(entries)
    THEN [files |-> acc, err |-> NoErr, panic |-> FALSE]
    ELSE LET d == entries[i]
         IN  IF d.t # "dict"
             THEN [files |-> <<>>, err |-> NoErr, panic |-> TRUE]
             ELSE LET length  == intValue(d, "length")
                      benPath == fromDict(d, "path")
                  IN  IF length.err # NoErr
                      THEN [files |-> <<>>, err |-> length.err, panic |-> FALSE]
                      ELSE IF benPath.err # NoErr
                      THEN [files |-> <<>>, err |-> benPath.err, panic |-> FALSE]
                      ELSE IF benPath.value.t # "list"
                      THEN [files |-> <<>>, err |-> NoErr, panic |-> FALSE]
                      ELSE filesLoop(entries, i + 1,
                              Append(acc,
                                 [length |-> length.value,
                                  path |-> [j \in DOMAIN benPath.value.v |->
                                              PrettyString(benPath.value.v[j])]]))

files(infoDict) ==
    LET benFiles == fromDict(infoDict, "files")
    IN  IF benFiles.err # NoErr
        THEN [files |-> <<>>, err |-> NoErr, panic |-> FALSE]
        ELSE IF benFiles.value.t # "list"
             THEN [files |-> <<>>, err |-> wrongTypeError("files", "list"), panic |-> FALSE]
             ELSE filesLoop(benFiles.value.v, 1, <<>>)

pieceHashes(pieces) ==
    LET len == Len(pieces)
    IN  IF len % hashLen # 0
        THEN [hashes |-> <<>>, err |-> "piece hash has to be 20 bytes long"]
        ELSE [hashes |-> [k \in 1..(len \div hashLen) |->
                             SubSeq(pieces, hashLen * (k - 1) + 1, hashLen * k)],
              err |-> NoErr]

DecodeError(e) == [kind |-> "err", info |-> NoInfo, err |-> e]

DecodePanic == [kind |-> "panic", info |-> NoInfo, err |-> NoErr]

\* Decode(): parsed is the outcome of p.Parse()
Decode(parsed) ==
    IF parsed.parseErr THEN DecodeError("parse error") ELSE
    LET dict == parsed.value IN
    IF dict.t # "dict" THEN DecodeError(wrongTypeError("Torrent content ", "dictionary")) ELSE
    LET announceV == strValue(dict, "announce") IN
    IF announceV.err # NoErr THEN DecodeError(announceV.err) ELSE
    LET announceListV == announceList(dict) IN
    IF announceListV.err # NoErr THEN DecodeError(announceListV.err) ELSE
    LET infoV == fromDict(dict, "info") IN
    IF infoV.err # NoErr THEN DecodeError(infoV.err) ELSE
    LET infoDict == infoV.value IN
    IF infoDict.t # "dict" THEN DecodeError(wrongTypeError("info", "dictionary")) ELSE
    LET pieceLength == intValue(infoDict, "piece length") IN
    IF pieceLength.err # NoErr THEN DecodeError(pieceLength.err) ELSE
    LET length == intValue(infoDict, "length")
        isSingleFile == length.present
    IN
    IF isSingleFile /\ length.err # NoErr THEN DecodeError(length.err) ELSE
    LET name == strValue(infoDict, "name") IN
    IF name.err # NoErr THEN DecodeError(name.err) ELSE
    LET filesV == files(infoDict) IN
    IF filesV.panic THEN DecodePanic ELSE
    IF filesV.err # NoErr THEN DecodeError(filesV.err) ELSE
    IF filesV.files = <<>> /\ ~isSingleFile
    THEN DecodeError("No files to download in the torrent file") ELSE
    LET pieces == strValue(infoDict, "pieces") IN
    IF pieces.err # NoErr THEN DecodeError(pieces.err) ELSE
    LET pieceHash == pieceHashes(pieces.value) IN
    IF pieceHash.err # NoErr THEN DecodeError(pieceHash.err) ELSE
    [kind |-> "ok",
     info |-> [Announce |-> announceV.value, AnnounceList |-> announceListV.list,
               PieceSize |-> pieceLength.value, Length |-> length.value,
               Name |-> name.value, files |-> filesV.files,
               PieceHashes |-> pieceHash.hashes, InfoHash |-> sha1(infoDict),
               ChunkSize |-> chunkSize],
     err |-> NoErr]

(***************************************************************************)
(* The torrents of a run: every field absent (Nil), of the wrong type, or  *)
(* of the right one                                                        *)
(***************************************************************************)
\* A dictionary of the fields of f that are present
DictOf(f) == BDict([k \in { x \in DOMAIN f : f[x].t # "nil" } |-> f[k]])

Bytes(n) == [k \in 1..n |-> (k - 1) \div hashLen + 1]

AnnounceVals == {Nil, BInt(1), BStr("http://tracker.example/announce")}

AnnounceListVals ==
    {Nil, BInt(1), BList(<<BStr("http://backup.example/announce")>>),
     BList(<<BList(<<BStr("http://backup.example/announce")>>)>>)}

PieceLengthVals == {Nil, BStr("x")} \cup { BInt(n) : n \in {0, MaxPieceLen} }

LengthVals == {Nil, BStr("x")} \cup { BInt(n) : n \in {0, MaxLength} }

NameVals == {Nil, BInt(1), BStr("ubuntu.iso")}

PathVals == {Nil, BStr("a.txt"), BList(<<BStr("dir"), BStr("a.txt")>>)}

FileEntries ==
    {BInt(1)} \cup
    { DictOf([length |-> l, path |-> pt]) :
        l \in {Nil, BStr("x"), BInt(1)}, pt \in PathVals }

GoodEntry == DictOf([length |-> BInt(1), path |-> BList(<<BStr("dir"), BStr("a.txt")>>)])

FilesVals ==
    {Nil, BStr("x"), BList(<<>>)}
    \cup { BList(<<e>>) : e \in FileEntries }
    \cup { BList(<<GoodEntry, BInt(1)>>), BList(<<GoodEntry, GoodEntry>>) }

PiecesVals ==
    {Nil, BInt(1), BStr(Bytes(7)), BStr(Bytes(hashLen + 7))}
    \cup { BStr(Bytes(hashLen * k)) : k \in 0..MaxHashes }

InfoDicts ==
    { DictOf(("piece length" :> pl) @@ [length |-> l, name |-> n, files |-> f, pieces |-> ps]) :
        pl \in PieceLengthVals, l \in LengthVals, n \in NameVals, f \in FilesVals,
        ps \in PiecesVals }

InfoVals == {Nil, BStr("x")} \cup InfoDicts

Torrents ==
    { DictOf(("announce-list" :> al) @@ [announce |-> a, info |-> i]) :
        a \in AnnounceVals, al \in AnnounceListVals, i \in InfoVals }

NoBen == [parseErr |-> TRUE, value |-> Nil]

ParsedInputs ==
    {NoBen, [parseErr |-> FALSE, value |-> BInt(1)]}
    \cup { [parseErr |-> FALSE, value |-> d] : d \in Torrents }

\* Info values built directly by a caller of CalculateLastPieceSize
DirectInfos ==
    { [NoInfo EXCEPT !.Length = l, !.PieceSize = ps] :
        l \in 0..MaxLength, ps \in 0..MaxPieceLen }

NotDecoded == [kind |-> "none", info |-> NoInfo, err |-> NoErr]

NotCalculated == [panic |-> FALSE, lastPieceSize |-> 0, numberOfPieces |-> 0]

InitTorrent == tpc = "idle" /\ ben = NoBen /\ info = NoInfo /\ dres = NotDecoded /\ cres = NotCalculated

\* A run of the decoder starts either from a parsed torrent file, or from an Info a
\* caller built
InitTorrentRun ==
    /\ dres = NotDecoded /\ cres = NotCalculated
    /\ \/ tpc = "parsed" /\ ben \in ParsedInputs /\ info = NoInfo
       \/ tpc = "info" /\ ben = NoBen /\ info \in DirectInfos

DecodeStep ==
    /\ tpc = "parsed"
    /\ dres' = Decode(ben)
    /\ info' = Decode(ben).info
    /\ tpc' = IF Decode(ben).kind = "ok" THEN "info" ELSE "decodeFailed"
    /\ UNCHANGED <<ben, cres>>

CalcStep ==
    /\ tpc = "info"
    /\ cres' = CalculateLastPieceSize(info)
    /\ tpc' = "calculated"
    /\ UNCHANGED <<ben, info, dres>>

NextTorrent ==
    \/ DecodeStep /\ UNCHANGED <<peerVars, startupVars>>
    \/ CalcStep /\ UNCHANGED <<peerVars, startupVars>>

Init == InitPeer /\ InitStartup /\ InitTorrent

SpecPeer == Init /\ [][NextPeer]_vars

SpecStartup == Init /\ [][NextStartup]_vars

InitDecoder == InitPeer /\ InitStartup /\ InitTorrentRun

SpecTorrent == InitDecoder /\ [][NextTorrent]_vars

(***************************************************************************)
(* Properties of the peer sessions, under SpecPeer                         *)
(***************************************************************************)
RequestsSent(s) == Cardinality({ i \in DOMAIN s.net : s.net[i].id = "request" })

\* The blocks (piece index, offset) session p has sent a Request for
Requested(p) ==
    { <<decodeRequest(peer[p].net[i].payload)[1], decodeRequest(peer[p].net[i].payload)[2]>> :
        i \in { j \in DOMAIN peer[p].net : peer[p].net[j].id = "request" } }

\* C1: a step of a session that sends a Request leaves the session's choked flag
\* false, and the most recent Choke/Unchoke packet the session has processed is an
\* Unchoke: no Request goes out between a Choke and the next Unchoke.
C1_RequestOnlyWhenUnchoked ==
    [][ \A p \in Sessions :
          RequestsSent(peer'[p]) > RequestsSent(peer[p])
             => (~peer'[p].chocked /\ lastCU'[p] = "unchoke") ]_vars

C1_Witness ==
    \E p \in Sessions : /\ lastCU[p] = "unchoke"
                     /\ received[p] >= 2
                     /\ RequestsSent(peer[p]) >= 1
                     /\ ~peer[p].chocked

\* C2: at most one connected peer holds a given block in Requested state: two
\* connected sessions never have a Request out for the same block, and one session
\* never has two Requests out for the same block.
C2_SingleOwner ==
    \A p \in Sessions, q \in Sessions :
        (conn[p] = "Active" /\ conn[q] = "Active")
           => /\ (p # q => Requested(p) \cap Requested(q) = {})
              /\ RequestsSent(peer[p]) = Cardinality(Requested(p))

C6_BitfieldTracksAnnouncements ==
    [][ \A p \in Sessions :
          /\ \A b \in Bitfields :
                Deliver(p, Packet("bitfield", b)) => peer'[p].bitfield = b
          /\ \A i \in 0..(NumPieces - 1) :
                Deliver(p, Packet("have", BE32(i))) => HasPiece(peer'[p].bitfield, i) ]_vars

\* C7: KeepAlive, Cancel, Port and Unknown packets are skipped: at every moment the
\* session's flags, bitfield, sent messages and emitted events are those of a session
\* that received the same packets without the skipped ones.
C7_SkippedPacketsLeaveNoTrace == \A p \in Sessions : peer[p] = shadow[p]

C7_Witness ==
    \E p \in Sessions : afterSkip[p] = "followed" /\ peer[p].net # <<>>

\* C8: the choked flag is true exactly when the last Choke/Unchoke packet was Choke,
\* the interested flag exactly when the last Interested/NotInterested packet was
\* Interested; each of the four packets leaves the session's other flag and its
\* bitfield alone, and leaves every other session as it was.
C8_FlagsFollowLastPacket ==
    /\ [](\A p \in Sessions :
            /\ peer[p].chocked <=> (lastCU[p] = "choke")
            /\ peer[p].interested <=> (lastIN[p] = "interested"))
    /\ [][ \A p \in Sessions :
             /\ \A id \in {"choke", "unchoke"} :
                   Deliver(p, Packet(id, <<>>))
                      => /\ peer'[p].interested = peer[p].interested
                         /\ peer'[p].bitfield = peer[p].bitfield
                         /\ \A q \in Sessions \ {p} : peer'[q] = peer[q] /\ conn'[q] = conn[q]
             /\ \A id \in {"interested", "notInterested"} :
                   Deliver(p, Packet(id, <<>>))
                      => /\ peer'[p].chocked = peer[p].chocked
                         /\ peer'[p].bitfield = peer[p].bitfield
                         /\ \A q \in Sessions \ {p} : peer'[q] = peer[q] /\ conn'[q] = conn[q] ]_vars

C8_Witness ==
    \E p \in Sessions, q \in Sessions :
        /\ p # q
        /\ lastCU[p] = "choke" /\ peer[p].chocked
        /\ lastIN[p] = "interested" /\ peer[p].interested
        /\ lastCU[q] = "unchoke" /\ ~peer[q].chocked

(***************************************************************************)
(* Properties of main and Tracker.Peers, under SpecStartup                 *)
(***************************************************************************)
\* C3: startup never aborts the process; a connection is opened only when a tracker
\* exists and it returned at least one peer; with no tracker, or with a tracker
\* response of zero peers, main ends by reporting a failure and returning without
\* opening a connection.
C3_StartupNeverAborts ==
    /\ mpc # "panic"
    /\ opened # <<>> => (tracker = "httpTracker" /\ Len(pres.peers) >= 1)
    /\ (/\ mpc \notin {"start", "read", "decoded", "tracker", "peers"}
        /\ \/ tracker = "nil"
           \/ (pres.requests = 1 /\ pres.err = NoErr /\ pres.peers = <<>>))
          => (mpc = "returned" /\ out # <<>> /\ opened = <<>>)

\* C9: Peers() performs exactly one request; it returns an error and no peers when
\* the request fails, the status is not 200, the body cannot be read or the body
\* cannot be decoded, and otherwise the decoded peers, in the response's order, and
\* no error.
C9_PeersAllOrNothing ==
    /\ pres.requests <= 1
    /\ pres.requests = 1 =>
         IF penv.getErr \/ penv.status # 200 \/ penv.readErr \/ penv.decErr
         THEN pres.err # NoErr /\ pres.peers = <<>>
         ELSE pres.err = NoErr /\ pres.peers = penv.rspPeers

C9_Witness ==
    /\ pres.requests = 1
    /\ ~penv.getErr /\ penv.status = 404 /\ ~penv.readErr /\ ~penv.decErr
    /\ Len(penv.rspPeers) = 2
    /\ pres.err # NoErr /\ pres.peers = <<>>

(***************************************************************************)
(* Properties of the torrent decoder, under SpecTorrent                    *)
(***************************************************************************)
\* ceil(l / ps), by its definition
CeilDiv(l, ps) == CHOOSE n \in 0..l : n * ps >= l /\ (n = 0 \/ (n - 1) * ps < l)

\* C4: for Length L >= 0 and PieceSize P >= 1 CalculateLastPieceSize returns
\* numberOfPieces = ceil(L / P) and lastPieceSize = L mod P, or P when that is zero;
\* so for L >= 1, 1 <= lastPieceSize <= P and (numberOfPieces - 1) * P + lastPieceSize = L.
C4_LastPieceSize ==
    (tpc = "calculated" /\ info.Length >= 0 /\ info.PieceSize >= 1) =>
        /\ ~cres.panic
        /\ cres.numberOfPieces = CeilDiv(info.Length, info.PieceSize)
        /\ cres.lastPieceSize =
              (IF info.Length % info.PieceSize # 0
               THEN info.Length % info.PieceSize ELSE info.PieceSize)
        /\ info.Length >= 1 =>
              /\ 1 <= cres.lastPieceSize /\ cres.lastPieceSize <= info.PieceSize
              /\ (cres.numberOfPieces - 1) * info.PieceSize + cres.lastPieceSize = info.Length

C4_Witness ==
    /\ tpc = "calculated"
    /\ info.PieceSize >= 2 /\ info.Length >= 2 * info.PieceSize
    /\ info.Length % info.PieceSize = 0
    /\ cres.lastPieceSize = info.PieceSize /\ cres.numberOfPieces >= 2

\* The torrent dictionaries C10 calls malformed
BadOrMissing(dict, key, type) == get(dict, key).t # type

BadIfPresent(dict, key, type) == get(dict, key).t \notin {"nil", type}

BadFileEntry(e) ==
    \/ e.t # "dict"
    \/ BadOrMissing(e, "length", "int")
    \/ BadOrMissing(e, "path", "list")

MalformedInfo(i) ==
    \/ BadOrMissing(i, "piece length", "int")
    \/ BadIfPresent(i, "length", "int")
    \/ BadOrMissing(i, "name", "str")
    \/ BadIfPresent(i, "files", "list")
    \/ /\ get(i, "files").t = "list"
       /\ \E k \in DOMAIN get(i, "files").v : BadFileEntry(get(i, "files").v[k])
    \/ BadOrMissing(i, "pieces", "str")
    \/ get(i, "pieces").t = "str" /\ Len(get(i, "pieces").v) % 20 # 0
    \/ /\ get(i, "length").t # "int"
       /\ ~(get(i, "files").t = "list" /\ get(i, "files").v # <<>>)

Malformed(parsed) ==
    /\ ~parsed.parseErr
    /\ parsed.value.t = "dict"
    /\ \/ BadOrMissing(parsed.value, "announce", "str")
       \/ BadOrMissing(parsed.value, "info", "dict")
       \/ get(parsed.value, "info").t = "dict" /\ MalformedInfo(get(parsed.value, "info"))

\* C10: on a malformed torrent dictionary Decode returns (nil, error): it neither
\* crashes nor returns an Info.
C10_DecodeRejectsMalformed ==
    (tpc # "parsed" /\ Malformed(ben)) => (dres.kind = "err" /\ dres.info = NoInfo)

====
